---------------------------- MODULE Spec2Model ----------------------------
(***************************************************************************)
(* Co-simulation harnesses of the tiliqua gateware.  Seven harness         *)
(* variants drive an opaque digital core through simulated time, toggle    *)
(* its clock domains and emulate the peripherals around it:                *)
(*                                                                         *)
(*   "vectorscope_cxxrtl"   gateware/sim.cpp                               *)
(*   "tb_cxxrtl"            gateware/src/top/vectorscope_no_soc/sim/       *)
(*                          tb-cxxrtl.cpp                                  *)
(*   "example_vectorscope"  gateware/src/example_vectorscope/sim/sim.cpp   *)
(*   "top_selftest"         gateware/src/top/selftest/sim.cpp              *)
(*   "top_dsp"              gateware/src/top/dsp/sim_dsp_core.cpp          *)
(*   "selftest"             gateware/src/selftest/sim.cpp                  *)
(*   "example_dsp"          gateware/src/example_dsp/sim_dsp_core.cpp      *)
(*                                                                         *)
(* One iteration of a harness's run loop is modelled block by block: the   *)
(* loop head, the flash publication, one block per clock domain, the       *)
(* bandwidth sample and the end of the iteration are one action each, in   *)
(* the order of the source.  The core is opaque: every evaluation draws    *)
(* its outputs anew from a bounded set.                                    *)
(***************************************************************************)
EXTENDS Integers, Sequences, FiniteSets, TLC

\* ------------------------------------------------------------------------
\* Bounds of the model
\* ------------------------------------------------------------------------

\* Loop iterations of a run whose core drives peripheral signals (stands in
\* for the harnesses' simulated-time budgets, which are of the order 1e8).
MaxTicks == 9

\* Bytes of the burst-memory backing store (16 MiB or 32 MiB in the source).
MemSize == 8

\* Loop iterations of a run that follows the audio divider over two periods.
AudioTicks == 2600

\* ------------------------------------------------------------------------
\* Program constants
\* ------------------------------------------------------------------------

ns_in_s == 1000000000

\* "256x I2S clock divider"
FsDivider == 256

\* example_dsp flips the audio clock when clkdiv % 5 == 0
ClkDivRatio == 5

\* Verilator time units (ps) added per loop iteration
TimeIncPs == 1000

\* im_stride: bytes per pixel of the frame buffer
im_stride == 3

Pow2_8 == 256
Pow2_16 == 65536

Variants ==
    { "vectorscope_cxxrtl", "tb_cxxrtl", "example_vectorscope",
      "top_selftest", "top_dsp", "selftest", "example_dsp" }

Dom == { "dvi", "sync", "audio", "fast" }

\* ------------------------------------------------------------------------
\* What each harness variant is made of
\* ------------------------------------------------------------------------

\* The CXXRTL harnesses count nanoseconds in a for loop; the Verilator ones
\* derive the timestamp from the context's time.
IsCxxrtl(v) == v \in { "vectorscope_cxxrtl", "tb_cxxrtl" }

\* The clock domains a harness toggles.
Domains(v) ==
    CASE v \in { "vectorscope_cxxrtl", "tb_cxxrtl",
                 "example_vectorscope", "top_selftest" }
                             -> { "dvi", "sync", "audio" }
      [] v = "top_dsp"       -> { "sync", "audio", "fast" }
      [] v = "selftest"      -> { "sync" }
      [] v = "example_dsp"   -> { "sync", "audio" }

\* The clock level after the flip on which a harness runs its emulators:
\* the CXXRTL harnesses test `!clk.get()`, the Verilator ones `clk`.
ActiveLevel(v) == ~IsCxxrtl(v)

\* Display capture (compiled out with #if 0 in tb-cxxrtl.cpp).
HasCapture(v) == v \in { "vectorscope_cxxrtl", "example_vectorscope", "top_selftest" }

\* Burst-memory emulation (top_dsp: built with PSRAM_SIM).
HasPsram(v) ==
    v \in { "vectorscope_cxxrtl", "tb_cxxrtl", "example_vectorscope",
            "top_selftest", "top_dsp" }

\* The harness evaluates the core inside the read branch and inside the
\* write branch; top_selftest evaluates once, after both branches.
EvalInBranch(v) == HasPsram(v) /\ v # "top_selftest"

\* Serial capture.
HasUart(v) == v \in { "top_selftest", "selftest" }

\* Flash emulation.
HasFlash(v) == v = "top_selftest"

\* idle/busy accounting.
HasBandwidth(v) == v \in { "example_vectorscope", "top_dsp" }

\* The loop condition tests gotFinish().
HasFinish(v) == ~IsCxxrtl(v)

\* The harness dumps a trace sample at the end of an iteration
\* (Verilator: built with VM_TRACE_FST; tb_cxxrtl: built with TRACE_VCD).
HasTrace(v) == v # "vectorscope_cxxrtl"

\* The audio divider counter is declared without an initialiser.
DividerUninitialised(v) == v \in { "example_vectorscope", "top_selftest", "top_dsp" }

\* ------------------------------------------------------------------------
\* 32-bit and 8-bit arithmetic
\*
\* A uint32_t is held as the pair << high 16 bits, low 16 bits >>: its value
\* is w[1] * 65536 + w[2].
\* ------------------------------------------------------------------------

RECURSIVE Pow(_, _)
Pow(b, n) == IF n = 0 THEN 1 ELSE b * Pow(b, n - 1)

U32(hi, lo) == << hi, lo >>
Hi(w) == w[1]
Lo(w) == w[2]

\* (uint8_t)(w >> s), for a shift of 0, 8, 16 or 24 bits
ShrByte(w, s) ==
    IF s < 16
    THEN ((Lo(w) \div Pow(2, s)) + (Hi(w) % Pow(2, s)) * Pow(2, 16 - s)) % Pow2_8
    ELSE (Hi(w) \div Pow(2, s - 16)) % Pow2_8

\* b << s for a byte b, as a 32-bit pattern
Shl32(b, s) ==
    IF s < 16
    THEN U32((b * Pow(2, s)) \div Pow2_16, (b * Pow(2, s)) % Pow2_16)
    ELSE U32((b * Pow(2, s - 16)) % Pow2_16, 0)

\* a | b on n-bit patterns, bit by bit
RECURSIVE BitOr(_, _, _)
BitOr(a, b, n) ==
    IF n = 0 THEN 0
    ELSE (IF (a % 2 = 1) \/ (b % 2 = 1) THEN 1 ELSE 0)
         + 2 * BitOr(a \div 2, b \div 2, n - 1)

Or32(a, b) == U32(BitOr(Hi(a), Hi(b), 16), BitOr(Lo(a), Lo(b), 16))

\* w + 1 in uint32_t
Inc32(w) ==
    IF Lo(w) + 1 < Pow2_16 THEN U32(Hi(w), Lo(w) + 1)
    ELSE U32((Hi(w) + 1) % Pow2_16, 0)

\* w + n in uint32_t, for 0 <= n < 2^30
Add32(w, n) ==
    LET l == Lo(w) + n
    IN  U32((Hi(w) + l \div Pow2_16) % Pow2_16, l % Pow2_16)

\* w % m for a divisor m of 65536
Mod32(w, m) == Lo(w) % m

\* aptr + i (the core keeps aptr + 3 inside the backing store)
AddrPlus(a, i) == a + i

\* (mutant) the read branch assembles the bytes in big-endian order
ReadWordBigEndian(m, a) ==
    Or32(Or32(Or32(Shl32(m[AddrPlus(a, 0)], 24),
                   Shl32(m[AddrPlus(a, 1)], 16)),
              Shl32(m[AddrPlus(a, 2)], 8)),
         Shl32(m[AddrPlus(a, 3)], 0))

\* The word the read branch assembles from four bytes of the backing store:
\* (m[a+3] << 24) | (m[a+2] << 16) | (m[a+1] << 8) | (m[a+0] << 0)
ReadWord(m, a) ==
    Or32(Or32(Or32(Shl32(m[AddrPlus(a, 3)], 24),
                   Shl32(m[AddrPlus(a, 2)], 16)),
              Shl32(m[AddrPlus(a, 1)], 8)),
         Shl32(m[AddrPlus(a, 0)], 0))

\* (mutant) the write branch stores the low three bytes only
StoreWordTruncated(m, a, w) ==
    LET m0 == [m  EXCEPT ![AddrPlus(a, 0)] = ShrByte(w, 0)]
        m1 == [m0 EXCEPT ![AddrPlus(a, 1)] = ShrByte(w, 8)]
        m2 == [m1 EXCEPT ![AddrPlus(a, 2)] = ShrByte(w, 16)]
    IN  m2

\* (mutant) the write branch stores the bytes in big-endian order
StoreWordBigEndian(m, a, w) ==
    LET m0 == [m  EXCEPT ![AddrPlus(a, 0)] = ShrByte(w, 24)]
        m1 == [m0 EXCEPT ![AddrPlus(a, 1)] = ShrByte(w, 16)]
        m2 == [m1 EXCEPT ![AddrPlus(a, 2)] = ShrByte(w, 8)]
        m3 == [m2 EXCEPT ![AddrPlus(a, 3)] = ShrByte(w, 0)]
    IN  m3

\* The backing store after the write branch has stored word w at a.
StoreWord(m, a, w) ==
    LET m0 == [m  EXCEPT ![AddrPlus(a, 0)] = ShrByte(w, 0)]
        m1 == [m0 EXCEPT ![AddrPlus(a, 1)] = ShrByte(w, 8)]
        m2 == [m1 EXCEPT ![AddrPlus(a, 2)] = ShrByte(w, 16)]
        m3 == [m2 EXCEPT ![AddrPlus(a, 3)] = ShrByte(w, 24)]
    IN  m3

\* ------------------------------------------------------------------------
\* Clock periods
\* ------------------------------------------------------------------------

\* ns_in_<domain>_cycle = ns_in_s / <DOMAIN>_CLK_HZ
ns_in_cycle(f) == ns_in_s \div f

\* (mutant) the toggle test divides by the whole period
HalfPeriodWhole(f) == ns_in_cycle(f)

\* the divisor of the toggle test, ns_in_<domain>_cycle/2
HalfPeriod(f) == ns_in_cycle(f) \div 2

\* The harness derives its toggle tests from the clock frequencies
\* (example_dsp counts iterations instead).
UsesPeriods(v) == v # "example_dsp"

\* ns_in_s / 0 divides by zero.
PeriodUndefined(f) == f = 0

\* timestamp_ns % (ns_in_cycle/2) divides by zero: the frequency is zero, or
\* so high that the half period truncates to zero.
TestUndefined(f) == PeriodUndefined(f) \/ HalfPeriod(f) = 0


\* ------------------------------------------------------------------------
\* Order of the blocks
\* ------------------------------------------------------------------------

\* The blocks of one loop iteration, in source order.
IterOrder(v) ==
    CASE IsCxxrtl(v)                 -> << "dvi", "sync", "audio", "end" >>
      [] v = "example_vectorscope"   -> << "dvi", "sync", "audio", "bw", "end" >>
      [] v = "top_selftest"          -> << "flash", "dvi", "sync", "audio", "end" >>
      [] v = "top_dsp"               -> << "sync", "audio", "fast", "bw", "end" >>
      [] v = "selftest"              -> << "sync", "end" >>
      [] v = "example_dsp"           -> << "sync", "audio", "end" >>

\* (mutant) every harness allocates before it resets
SetupOrderAllocFirst(v) == << "periods", "alloc", "reset_assert", "reset_release" >>

\* The statements before the loop, in source order: the CXXRTL harnesses
\* allocate first and reset second, the Verilator ones reset first.  The
\* clock periods are computed first, except in top_dsp, which computes them
\* after the reset phase.
SetupOrder(v) ==
    CASE IsCxxrtl(v)       -> << "periods", "alloc", "reset_assert", "reset_release" >>
      [] v = "selftest"    -> << "periods", "reset_assert", "reset_release" >>
      [] v = "example_dsp" -> << "reset_assert", "reset_release" >>
      [] v = "top_dsp"     -> << "reset_assert", "reset_release", "periods", "alloc" >>
      [] OTHER             -> << "periods", "reset_assert", "reset_release", "alloc" >>

Index(seq, p) == CHOOSE i \in 1 .. Len(seq) : seq[i] = p

\* The block that follows block p of the loop body.
After(v, p) ==
    LET o == IterOrder(v)
        i == Index(o, p)
    IN  IF i = Len(o) THEN "loop" ELSE o[i + 1]

\* The statement that follows setup statement p.
AfterSetup(v, p) ==
    LET o == SetupOrder(v)
        i == Index(o, p)
    IN  IF i = Len(o) THEN "loop" ELSE o[i + 1]

\* ------------------------------------------------------------------------
\* State
\* ------------------------------------------------------------------------

VARIABLES
    \* configuration, fixed for a run
    variant,        \* the harness
    focus,          \* which of the core's signal groups the core drives
    freq,           \* <DOMAIN>_CLK_HZ of each domain
    res,            \* <<DVI_H_ACTIVE, DVI_V_ACTIVE>>
    sim_time,       \* the run's budget: ns (CXXRTL loop bound) or ps (sim_time)
    fw,             \* the firmware file and the offsets it is loaded at
    divz,           \* what the build makes of a division by zero
    \* control
    pc,             \* the block of the harness that runs next
    time,           \* contextp->time(), ps (Verilator harnesses)
    timestamp_ns,   \* the timestamp of the toggle tests
    clkdiv,         \* example_dsp's iteration counter
    \* signals
    clk,            \* clock inputs of the core, per domain
    rst,            \* reset inputs of the core (set and cleared together)
    core,           \* the core's outputs as of its last evaluation
    dirty,          \* an input of the core has changed since its last evaluation
    read_data_view, \* input: burst-memory read data
    fs_strobe,      \* input: audio frame-sync strobe
    inject,         \* input: the counter value the injected samples were computed from
    spiflash_data,  \* input: flash read data
    \* emulator state
    allocated,      \* the backing stores and the frame buffer exist
    psram_data,
    image_data,
    frames,
    mod_pmod,
    pmod_clocks,
    idle_hi,
    idle_lo,
    spiflash,
    \* external sinks
    sinkIdx,        \* frame indices handed to the image sink, in order
    sinkImg,        \* the frame buffer as last handed to the image sink
    uart,           \* bytes written to standard output, in order
    last_dump,      \* timestamp of the last trace sample (-1: none yet)
    prev_dump,      \* timestamp of the trace sample before the last (-1: none)
    dumps,          \* number of samples handed to the trace sink
    \* observation of the run (not program state)
    iter,           \* loop iterations completed so far
    flips,          \* clock flips of each domain so far
    ev,             \* what the harness did in the current iteration, in order
    memop,          \* what the burst-memory emulator did on its last active edge
    scan            \* the active-area pixels captured since the last frame was handed over

cfgvars == << variant, focus, freq, res, sim_time, fw, divz >>
ctlvars == << pc, time, timestamp_ns, clkdiv >>
sigvars == << clk, rst, core, dirty, read_data_view, fs_strobe, inject, spiflash_data >>
memvars == << psram_data, read_data_view, memop >>
dvivars == << image_data, frames, sinkIdx, sinkImg >>
audvars == << mod_pmod, pmod_clocks, fs_strobe, inject >>
bwvars  == << idle_hi, idle_lo >>
tracevars == << last_dump, prev_dump, dumps >>
vars == << variant, focus, freq, res, sim_time, fw, divz, pc, time, timestamp_ns, clkdiv,
           clk, rst, core, dirty, read_data_view, fs_strobe, inject, spiflash_data,
           allocated, psram_data, image_data, frames, mod_pmod, pmod_clocks,
           idle_hi, idle_lo, spiflash, sinkIdx, sinkImg, uart, tracevars,
           iter, flips, ev, memop, scan >>

DVI_H_ACTIVE == res[1]
DVI_V_ACTIVE == res[2]

\* ------------------------------------------------------------------------
\* Configurations and the core's output alphabet
\* ------------------------------------------------------------------------

Foci == { "sched", "mem", "video", "frame", "audio", "status", "serial", "config", "time" }

\* Clock frequencies are build-time definitions.  "sched" runs use the
\* frequencies of the hardware (60 MHz, 25.175 MHz, 12 MHz) and others with
\* incommensurate half periods; the other runs use fast clocks so that a short
\* run holds several active edges.
FreqConfigs(f) ==
    CASE f = "sched" ->
           { [sync |-> 60000000,  dvi |-> 25175000, audio |-> 12000000, fast |-> 120000000],
             [sync |-> 25175000,  dvi |-> 60000000, audio |-> 12000000, fast |-> 60000000],
             [sync |-> 100000000, dvi |-> 74250000, audio |-> 12288000, fast |-> 200000000] }
      [] f = "frame" ->
           { [sync |-> 125000000, dvi |-> 500000000, audio |-> 125000000, fast |-> 125000000] }
      [] f = "audio" ->
           { [sync |-> 1000000, dvi |-> 1000000, audio |-> 500000000, fast |-> 1000000] }
      [] f = "config" ->
           { [sync |-> 250000000,  dvi |-> 250000000, audio |-> 125000000, fast |-> 250000000],
             [sync |-> 0,          dvi |-> 250000000, audio |-> 125000000, fast |-> 250000000],
             [sync |-> 1000000000, dvi |-> 250000000, audio |-> 125000000, fast |-> 250000000] }
      [] OTHER ->
           { [sync |-> 250000000, dvi |-> 250000000, audio |-> 125000000, fast |-> 250000000] }

\* Active display areas.
Resolutions(f) ==
    CASE f = "video" -> { <<2, 1>>, <<1, 2>> }
      [] f = "frame" -> { <<2, 1>> }
      [] OTHER       -> { <<1, 1>> }

\* The scenario run: 1,000,000 ticks of 1 ns with the clocks of the hardware.
ScenarioTicks == 1000 * 1000
ScenarioFreq ==
    [sync |-> 60000000, dvi |-> 25175000, audio |-> 12000000, fast |-> 120000000]

\* Loop iterations of a run.
Budget(f) ==
    CASE f = "sched"    -> 10 * MaxTicks
      [] f = "scenario" -> ScenarioTicks
      [] f = "audio"    -> AudioTicks
      [] OTHER          -> MaxTicks

\* The firmware files of the runs that load one, as byte sequences.
FirmwareFiles == { << 222, 173, 190 >>, << 1, 2, 3, 4, 5, 255 >> }

\* No firmware offset is defined: nothing is loaded.
NoFirmware == [ flash |-> -1, psram |-> -1, file |-> << >> ]

\* No file at FIRMWARE_BIN_PATH: the stream fails to open and the read
\* stores no byte.
MissingFile == << >>

\* SPIFLASH_FW_OFFSET, PSRAM_FW_OFFSET (at most one of them defined: the two
\* loads declare the same stream `fin`) and the file at FIRMWARE_BIN_PATH.
FwConfigs(f, v) ==
    CASE f = "status" /\ v = "top_selftest" ->
           { NoFirmware }
           \cup { [ flash |-> o, psram |-> -1, file |-> b ] :
                    o \in { 0, MemSize - 4 }, b \in FirmwareFiles }
           \cup { [ flash |-> -1, psram |-> o, file |-> b ] :
                    o \in { 0, MemSize - 4 }, b \in FirmwareFiles }
      [] f = "config" /\ v = "top_selftest" ->
           { NoFirmware }
           \cup { [ flash |-> 0, psram |-> -1, file |-> b ] :
                    b \in { MissingFile, << 222, 173, 190 >> } }
           \cup { [ flash |-> -1, psram |-> 0, file |-> b ] :
                    b \in { MissingFile, << 222, 173, 190 >> } }
      [] OTHER -> { NoFirmware }

\* What the build makes of a division by zero, which is undefined: the
\* process traps, or it goes on with the toggle test taken or skipped.
DivzOutcomes(f) == IF f = "config" THEN { "trap", "taken", "skipped" } ELSE { "trap" }

\* (mutant) every Verilator harness advances 8333 ps per iteration
TickUnitsCoarse(v) == IF IsCxxrtl(v) THEN 1 ELSE 8333

\* Time units per loop iteration.
TickUnits(v) ==
    CASE IsCxxrtl(v)       -> 1
      [] v = "example_dsp" -> 8333
      [] OTHER             -> TimeIncPs

\* The budgets of a run, in the harness's time units: a whole number of
\* iterations, and for the runs on the timestamp also budgets that end
\* inside an iteration and one that ends before the first.
SimTimes(f, v) ==
    IF f = "time" /\ ~IsCxxrtl(v) /\ v # "example_dsp"
    THEN { 2, Budget(f) * TickUnits(v) - 500, Budget(f) * TickUnits(v),
           Budget(f) * TickUnits(v) + 2, Budget(f) * TickUnits(v) + 3 }
    ELSE { Budget(f) * TickUnits(v) }

\* Addresses and words the core puts on the memory bus.
AddrSet == { 0, MemSize - 4 }
WordSet == { U32(4660, 22136), U32(65280, 33023) }     \* 0x12345678, 0xFF0080FF

\* Colours the core puts on the pixel bus.
ColourSet == { <<17, 34, 51>>, <<255, 128, 0>> }

\* Values of an uninitialised uint32_t counter.
Garbage == { U32(0, 0), U32(65535, 65535) }

\* The values the audio divider counter may hold when the loop is entered.
DividerInit(v) == IF DividerUninitialised(v) THEN Garbage ELSE { U32(0, 0) }

\* The outputs of a core that drives no peripheral signal.  Its pixel
\* coordinate rests at (0, 0), inside the active area, except in "sched" and
\* "scenario" runs, where it rests in the blanking region.
QuietCore ==
    [ rr |-> FALSE, wr |-> FALSE, addr |-> 0, wdat |-> U32(0, 0),
      x |-> IF focus \in { "sched", "scenario", "audio", "status", "serial", "config", "time" } THEN DVI_H_ACTIVE ELSE 0,
      y |-> 0, rgb |-> <<1, 2, 3>>,
      idle |-> 1, stb |-> FALSE, wdata |-> 0, faddr |-> 0, fin |-> FALSE ]

\* The outputs the core may show after an evaluation.  Signals a harness never
\* samples in the state shown (the address with neither ready signal asserted,
\* the write word without write-ready, the colour outside the active area) are
\* held at their quiet values.
MemOutputs ==
    { QuietCore }
    \cup { [ QuietCore EXCEPT !.rr = TRUE, !.addr = a ] : a \in AddrSet }
    \cup { [ QuietCore EXCEPT !.rr = r, !.wr = TRUE, !.addr = a, !.wdat = d ] :
             r \in BOOLEAN, a \in AddrSet, d \in WordSet }

VideoOutputs ==
    { [ QuietCore EXCEPT !.x = px, !.y = py,
                         !.rgb = IF px < DVI_H_ACTIVE /\ py < DVI_V_ACTIVE
                                 THEN c ELSE QuietCore.rgb ] :
        px \in 0 .. DVI_H_ACTIVE, py \in 0 .. DVI_V_ACTIVE, c \in ColourSet }

\* The status outputs: idle/busy, the flash address, and the halt condition
\* of the harnesses that can observe one.
StatusOutputs ==
    { [ QuietCore EXCEPT !.idle = i, !.faddr = a, !.fin = h ] :
        i \in (IF HasBandwidth(variant) THEN { 0, 1 } ELSE { 1 }),
        a \in (IF HasFlash(variant) THEN { 0, 1 } ELSE { 0 }),
        h \in (IF HasFinish(variant) THEN BOOLEAN ELSE { FALSE }) }

\* The bytes the core writes to its serial port.
SerialBytes == { 79, 75 }

\* The serial outputs: the write strobe and the write data, which is held at
\* its quiet value while the strobe is not asserted.
SerialOutputs ==
    { QuietCore }
    \cup { [ QuietCore EXCEPT !.stb = TRUE, !.wdata = b ] :
             b \in (IF HasUart(variant) THEN SerialBytes ELSE { }) }

CoreOutputs ==
    CASE focus = "mem" /\ HasPsram(variant)                   -> MemOutputs
      [] focus \in { "video", "frame" } /\ HasCapture(variant) -> VideoOutputs
      [] focus = "status"                                      -> StatusOutputs
      [] focus = "serial"                                      -> SerialOutputs
      [] OTHER                                                 -> { QuietCore }

\* One evaluation of the core from outputs c.  With no input changed since the
\* last evaluation (d false) the outputs stay as they are; otherwise the core
\* may show any outputs, except that gotFinish, once set, stays set.
Evaluate(c, d) == IF d THEN { o \in CoreOutputs : c.fin => o.fin } ELSE { c }

\* rd, ra, rv: a read was served, its address and the word published;
\* wr, wa, ww: a write was served, its address and word;
\* pwr, pwa, pww: the write served on the active edge before.
NoMemOp ==
    [ rd  |-> FALSE, ra  |-> 0, rv  |-> U32(0, 0),
      wr  |-> FALSE, wa  |-> 0, ww  |-> U32(0, 0),
      pwr |-> FALSE, pwa |-> 0, pww |-> U32(0, 0) ]

ZeroStore(n) == [ i \in 0 .. n - 1 |-> 0 ]

InitConfig(f) ==
    /\ focus = f
    /\ variant \in Variants
    /\ freq \in FreqConfigs(f)
    /\ res \in Resolutions(f)
    /\ sim_time \in SimTimes(f, variant)
    /\ fw \in FwConfigs(f, variant)
    /\ divz \in DivzOutcomes(f)

InitState ==
    /\ pc = SetupOrder(variant)[1]
    /\ time = 0
    /\ timestamp_ns = 0
    /\ clkdiv = 0
    /\ clk = [ d \in Dom |-> FALSE ]
    /\ rst = FALSE
    /\ core = QuietCore
    /\ dirty = FALSE
    /\ read_data_view = U32(0, 0)
    /\ fs_strobe = FALSE
    /\ inject = -1
    /\ spiflash_data = U32(0, 0)
    /\ allocated = FALSE
    /\ psram_data = ZeroStore(MemSize)
    /\ image_data = ZeroStore(res[1] * res[2] * im_stride)
    /\ frames = 0
    /\ mod_pmod \in DividerInit(variant)
    /\ pmod_clocks = 0
    /\ idle_hi = 0
    /\ idle_lo = 0
    /\ spiflash = ZeroStore(MemSize)
    /\ sinkIdx = << >>
    /\ sinkImg = << >>
    /\ uart = << >>
    /\ last_dump = -1
    /\ prev_dump = -1
    /\ dumps = 0
    /\ iter = 0
    /\ flips = [ d \in Dom |-> 0 ]
    /\ ev = << >>
    /\ memop = NoMemOp
    /\ scan = << >>

Init == (\E f \in Foci : InitConfig(f)) /\ InitState

\* ------------------------------------------------------------------------
\* The toggle test
\* ------------------------------------------------------------------------

\* (mutant) the toggle test compares the remainder with 1, so the first flip
\* of a domain comes one tick late
ToggleDueLate(v, d, ts, cd) ==
    IF v = "example_dsp"
    THEN (d = "sync") \/ (d = "audio" /\ cd % ClkDivRatio = 0)
    ELSE ts % HalfPeriod(freq[d]) = 1 % HalfPeriod(freq[d])

\* (mutant) example_dsp flips its audio clock one iteration late
ToggleDueAudioLate(v, d, ts, cd) ==
    CASE v = "example_dsp"      -> (d = "sync") \/ (d = "audio" /\ cd % ClkDivRatio = 1)
      [] TestUndefined(freq[d]) -> divz = "taken"
      [] OTHER                  -> ts % HalfPeriod(freq[d]) = 0

\* if (timestamp_ns % (ns_in_<domain>_cycle/2) == 0); example_dsp flips its
\* sync clock in every iteration and its audio clock when clkdiv % 5 == 0.
ToggleDue(v, d, ts, cd) ==
    CASE v = "example_dsp"      -> (d = "sync") \/ (d = "audio" /\ cd % ClkDivRatio = 0)
      [] TestUndefined(freq[d]) -> divz = "taken"
      [] OTHER                  -> ts % HalfPeriod(freq[d]) = 0

\* The toggle test of domain d divides by zero and the process traps.
TestTraps(d) == UsesPeriods(variant) /\ TestUndefined(freq[d]) /\ divz = "trap"

\* The process dies in the toggle test of block p.
DivisionTrap(p) ==
    /\ pc = p
    /\ pc' = "aborted"
    /\ UNCHANGED << cfgvars, time, timestamp_ns, clkdiv, sigvars, allocated,
                    psram_data, image_data, frames, mod_pmod, pmod_clocks, bwvars,
                    spiflash, sinkIdx, sinkImg, uart, tracevars, iter, flips, ev,
                    memop, scan >>

\* The clock levels after domain d's block has run.
Flipped(c, d) == [ c EXCEPT ![d] = ~c[d] ]

\* (mutant) the emulators run on every flip, whatever the level after it
ActiveEdgeAnyLevel(v, d) == ToggleDue(v, d, timestamp_ns, clkdiv)

\* The domain's block runs its emulators: the clock is due and the level
\* after the flip is the harness's active level.
ActiveEdge(v, d) ==
    /\ ToggleDue(v, d, timestamp_ns, clkdiv)
    /\ (~clk[d]) = ActiveLevel(v)

Count(fl, d) == [ fl EXCEPT ![d] = fl[d] + 1 ]

\* ------------------------------------------------------------------------
\* Before the loop
\* ------------------------------------------------------------------------

\* fin.read(store + offset, size_bytes): the stream delivers the whole file,
\* or size_bytes bytes of it if the file is longer.
ReadCount(o, len) == IF len < MemSize THEN len ELSE MemSize

\* The read stores bytes behind the end of the store.
Overflows(o, len) == o + ReadCount(o, len) > MemSize

\* The store after the read, as far as the bytes stored lie inside it.
Loaded(m, o, file) ==
    [ i \in DOMAIN m |->
        IF i >= o /\ i < o + ReadCount(o, Len(file)) THEN file[i - o + 1] ELSE m[i] ]

\* A store after malloc, memset and, if its offset is defined, the load.
Filled(o) == IF o >= 0 THEN Loaded(ZeroStore(MemSize), o, fw.file) ELSE ZeroStore(MemSize)

\* malloc and memset of the backing stores and of the frame buffer, and the
\* firmware load.  A read that stores behind the end of a store is undefined:
\* the run aborts, or goes on with the bytes that lie inside the store.
Allocate ==
    /\ pc = "alloc"
    /\ allocated' = TRUE
    /\ psram_data' = Filled(fw.psram)
    /\ image_data' = ZeroStore(DVI_H_ACTIVE * DVI_V_ACTIVE * im_stride)
    /\ spiflash' = Filled(fw.flash)
    /\ \E goesOn \in (IF \/ (fw.flash >= 0 /\ Overflows(fw.flash, Len(fw.file)))
                          \/ (fw.psram >= 0 /\ Overflows(fw.psram, Len(fw.file)))
                       THEN BOOLEAN ELSE { TRUE }) :
           pc' = IF goesOn THEN AfterSetup(variant, "alloc") ELSE "aborted"
    /\ UNCHANGED << cfgvars, iter, time, timestamp_ns, clkdiv, sigvars, frames,
                    mod_pmod, pmod_clocks, bwvars, sinkIdx, sinkImg, uart,
                    tracevars, flips, ev, memop, scan >>

\* An event of the current iteration: what was done, and in which block.
Ev(what, block) == << << what, block >> >>

When(c, e) == IF c THEN e ELSE << >>

\* (mutant) a sample is taken whether or not the build traces
TraceSampleAlways(sampled, ts) ==
    /\ last_dump' = ts
    /\ prev_dump' = last_dump
    /\ dumps' = dumps + 1

\* A sample handed to the trace sink with timestamp ts, if one is taken.
TraceSample(sampled, ts) ==
    /\ last_dump' = IF sampled THEN ts ELSE last_dump
    /\ prev_dump' = IF sampled THEN last_dump ELSE prev_dump
    /\ dumps' = IF sampled THEN dumps + 1 ELSE dumps

\* (mutant) the loop's sample carries the time before the increment
LoopSampleTimeBefore(v, ns, ps) == IF v = "tb_cxxrtl" THEN ns ELSE ps - TickUnits(v)

\* The timestamp of the sample at the end of an iteration: tb_cxxrtl
\* `vcd.sample(timestamp_ns)`; Verilator `tfp->dump(contextp->time())`
\* after timeInc.
LoopSampleTime(v, ns, ps) == IF v = "tb_cxxrtl" THEN ns ELSE ps

\* The statements up to the clock periods.  The CXXRTL harnesses first
\* evaluate the core once and sample the trace at time 0.  A division by a
\* zero frequency is undefined: the process traps, or it goes on.
Periods ==
    /\ pc = "periods"
    /\ core' \in (IF IsCxxrtl(variant) THEN Evaluate(core, TRUE) ELSE { core })
    /\ TraceSample(IsCxxrtl(variant), 0)
    /\ ev' = ev \o When(IsCxxrtl(variant), Ev("eval", "periods"))
    /\ pc' = IF (\E d \in Domains(variant) : PeriodUndefined(freq[d])) /\ divz = "trap"
             THEN "aborted"
             ELSE AfterSetup(variant, "periods")
    /\ UNCHANGED << cfgvars, iter, time, timestamp_ns, clkdiv, clk, rst, dirty,
                    read_data_view, fs_strobe, inject, spiflash_data, allocated,
                    psram_data, image_data, frames, mod_pmod, pmod_clocks, bwvars,
                    spiflash, sinkIdx, sinkImg, uart, flips, memop, scan >>

\* Resets asserted, the core evaluated (Verilator: timeInc(1) before, a trace
\* sample after).
ResetAssert ==
    /\ pc = "reset_assert"
    /\ rst' = TRUE
    /\ time' = IF IsCxxrtl(variant) THEN time ELSE time + 1
    /\ core' \in Evaluate(core, TRUE)
    /\ dirty' = FALSE
    /\ TraceSample(HasTrace(variant) /\ ~IsCxxrtl(variant), time')
    /\ ev' = ev \o << << "set", "reset_assert" >>, << "eval", "reset_assert" >> >>
    /\ pc' = AfterSetup(variant, "reset_assert")
    /\ UNCHANGED << cfgvars, iter, timestamp_ns, clkdiv, clk, read_data_view, fs_strobe,
                    inject, spiflash_data, allocated, psram_data, image_data,
                    frames, mod_pmod, pmod_clocks, bwvars, spiflash, sinkIdx,
                    sinkImg, uart, flips, memop, scan >>

\* Resets deasserted together, the core evaluated again.
ResetRelease ==
    /\ pc = "reset_release"
    /\ rst' = FALSE
    /\ time' = IF IsCxxrtl(variant) THEN time ELSE time + 1
    /\ core' \in Evaluate(core, TRUE)
    /\ dirty' = FALSE
    /\ TraceSample(HasTrace(variant) /\ ~IsCxxrtl(variant), time')
    /\ ev' = ev \o << << "set", "reset_release" >>, << "eval", "reset_release" >> >>
    /\ pc' = AfterSetup(variant, "reset_release")
    /\ UNCHANGED << cfgvars, iter, timestamp_ns, clkdiv, clk, read_data_view, fs_strobe,
                    inject, spiflash_data, allocated, psram_data, image_data,
                    frames, mod_pmod, pmod_clocks, bwvars, spiflash, sinkIdx,
                    sinkImg, uart, flips, memop, scan >>

\* ------------------------------------------------------------------------
\* The loop
\* ------------------------------------------------------------------------

\* (mutant) the halt condition is never consulted
LoopConditionBudgetOnly ==
    IF IsCxxrtl(variant)
    THEN timestamp_ns < sim_time
    ELSE time < sim_time

\* The loop condition: CXXRTL `timestamp_ns < N`; Verilator
\* `contextp->time() < sim_time && !contextp->gotFinish()`.
LoopCondition ==
    IF IsCxxrtl(variant)
    THEN timestamp_ns < sim_time
    ELSE time < sim_time /\ ~core.fin

\* (mutant) the timestamp is rounded up
TimestampRoundedUp(ps) == (ps + 999) \div 1000

\* uint64_t timestamp_ns = contextp->time() / 1000
TimestampOf(ps) == ps \div 1000

\* The loop head: the condition, and the timestamp of this iteration
\* (Verilator: contextp->time() / 1000).
LoopHead ==
    /\ pc = "loop"
    /\ IF LoopCondition
       THEN /\ pc' = IterOrder(variant)[1]
            /\ timestamp_ns' = IF IsCxxrtl(variant) \/ variant = "example_dsp"
                               THEN timestamp_ns
                               ELSE TimestampOf(time)
       ELSE /\ pc' = "done"
            /\ timestamp_ns' = timestamp_ns
    /\ ev' = << >>
    /\ UNCHANGED << cfgvars, iter, time, clkdiv, sigvars, allocated, psram_data,
                    image_data, frames, mod_pmod, pmod_clocks, bwvars, spiflash,
                    sinkIdx, sinkImg, uart, tracevars, flips, memop, scan >>

\* (mutant) the flash address is taken as a byte address
FlashWordAtByte(m, a) ==
    U32(m[a + 2] + Pow2_8 * m[a + 3], m[a] + Pow2_8 * m[a + 1])

\* Flash publication (top_selftest, every iteration):
\* top->spiflash_data = ((uint32_t*)spiflash_data)[top->spiflash_addr]
\* (element a of the store read as uint32_t words, on a little-endian host)
FlashWord(m, a) ==
    U32(m[4 * a + 2] + Pow2_8 * m[4 * a + 3], m[4 * a] + Pow2_8 * m[4 * a + 1])

FlashBlock ==
    /\ pc = "flash"
    /\ spiflash_data' = FlashWord(spiflash, core.faddr)
    /\ dirty' = (dirty \/ spiflash_data' # spiflash_data)
    /\ ev' = ev \o Ev("get", "flash") \o Ev("set", "flash")
    /\ pc' = After(variant, "flash")
    /\ UNCHANGED << cfgvars, iter, time, timestamp_ns, clkdiv, clk, rst, core,
                    read_data_view, fs_strobe, inject, allocated, psram_data,
                    image_data, frames, mod_pmod, pmod_clocks, bwvars, spiflash,
                    sinkIdx, sinkImg, uart, tracevars, flips, memop, scan >>

\* (mutant) the offset is computed column-major
StorePixelTransposed(img, h, x, y, c) ==
    [ i \in DOMAIN img |->
        IF      i = x * h * 3 + y * 3 + 0 THEN c[1] % Pow2_8
        ELSE IF i = x * h * 3 + y * 3 + 1 THEN c[2] % Pow2_8
        ELSE IF i = x * h * 3 + y * 3 + 2 THEN c[3] % Pow2_8
        ELSE img[i] ]

\* The frame buffer after the three channel bytes of pixel (x, y) are stored:
\* image_data[y*DVI_H_ACTIVE*3 + x*3 + k] = (uint8_t) channel k
StorePixel(img, h, x, y, c) ==
    [ i \in DOMAIN img |->
        IF      i = y * h * 3 + x * 3 + 0 THEN c[1] % Pow2_8
        ELSE IF i = y * h * 3 + x * 3 + 1 THEN c[2] % Pow2_8
        ELSE IF i = y * h * 3 + x * 3 + 2 THEN c[3] % Pow2_8
        ELSE img[i] ]

\* if (x < DVI_H_ACTIVE && y < DVI_V_ACTIVE)
InActiveArea(x, y) == x < DVI_H_ACTIVE /\ y < DVI_V_ACTIVE

\* (mutant) the end of frame is detected by the column alone
IsLastPixelColumnOnly(x, y) == x = DVI_H_ACTIVE - 1

\* if (x == DVI_H_ACTIVE-1 && y == DVI_V_ACTIVE-1)
IsLastPixel(x, y) == x = DVI_H_ACTIVE - 1 /\ y = DVI_V_ACTIVE - 1

\* (mutant) the frame index is not advanced
SameFrameIndex(f) == f

\* ++frames
NextFrameIndex(f) == f + 1

\* (mutant) the frame is handed over before the pixel of the edge is stored
FrameBeforeStore(before, after) == before

\* The frame stbi_write_bmp is given: the buffer after the store of the edge.
FrameHandedOver(before, after) == after

\* Pixel clock domain: the toggle and, on the active edge, display capture.
DviEdge ==
    /\ pc = "dvi"
    /\ LET due    == ToggleDue(variant, "dvi", timestamp_ns, clkdiv)
           act    == ActiveEdge(variant, "dvi") /\ HasCapture(variant)
           x      == core.x
           y      == core.y
           stored == act /\ InActiveArea(x, y)
           emit   == act /\ IsLastPixel(x, y)
           img    == IF stored
                     THEN StorePixel(image_data, DVI_H_ACTIVE, x, y, core.rgb)
                     ELSE image_data
       IN  /\ clk' = IF due THEN Flipped(clk, "dvi") ELSE clk
           /\ dirty' = (dirty \/ due)
           /\ flips' = IF due THEN Count(flips, "dvi") ELSE flips
           /\ image_data' = img
           /\ sinkIdx' = IF emit THEN Append(sinkIdx, frames) ELSE sinkIdx
           /\ sinkImg' = IF emit THEN FrameHandedOver(image_data, img) ELSE sinkImg
           /\ frames' = IF emit THEN NextFrameIndex(frames) ELSE frames
           /\ scan' = IF focus = "frame" /\ stored
                      THEN (IF scan # << >> /\ scan[Len(scan)].emitted
                            THEN << >> ELSE scan)
                           \o << [ x |-> x, y |-> y, rgb |-> core.rgb, emitted |-> emit ] >>
                      ELSE scan
           /\ ev' = ev \o When(due, Ev("flip", "dvi"))
                       \o When(act, Ev("get", "dvi"))
                       \o When(stored, Ev("store", "dvi"))
                       \o When(emit, Ev("emit", "dvi"))
    /\ pc' = After(variant, "dvi")
    /\ UNCHANGED << cfgvars, iter, time, timestamp_ns, clkdiv, rst, core,
                    read_data_view, fs_strobe, inject, spiflash_data, allocated,
                    psram_data, mod_pmod, pmod_clocks, bwvars, spiflash, uart,
                    tracevars, memop >>

\* (mutant) the write branch uses the outputs of the start of the edge
WriteSampleAtStart(start, evaluated) == start

\* The outputs the write branch samples: those the core shows when the
\* branch is reached, after the read branch and its evaluation.
WriteSample(start, evaluated) == evaluated

\* (mutant) the strobe is honoured on either edge
SerialPutAnyEdge(act, stb) == stb

\* Serial capture: a byte is written on the active edge when the strobe is
\* asserted (`if (top->clk && top->w_stb)`).
SerialPut(act, stb) == act /\ stb

\* Sync clock domain: the toggle and, on the active edge, the burst-memory
\* read branch, the write branch and serial capture, with the evaluations
\* the harness places between them.
SyncEdge ==
    /\ pc = "sync"
    /\ LET due == ToggleDue(variant, "sync", timestamp_ns, clkdiv)
           act == ActiveEdge(variant, "sync")
           mem == act /\ HasPsram(variant)
           rd  == mem /\ core.rr
           rv  == ReadWord(psram_data, core.addr)
           d0  == dirty \/ due \/ (rd /\ rv # read_data_view)
           ev1 == rd /\ EvalInBranch(variant)
           d1  == IF ev1 THEN FALSE ELSE d0
       IN  \E c1 \in (IF ev1 THEN Evaluate(core, d0) ELSE { core }) :
           LET w     == WriteSample(core, c1)
               wr    == mem /\ w.wr
               evEnd == \/ (act /\ variant = "top_selftest")
                        \/ (due /\ variant = "selftest")
               ev2   == (wr /\ EvalInBranch(variant)) \/ evEnd
           IN  \E c2 \in (IF ev2 THEN Evaluate(c1, d1) ELSE { c1 }) :
               LET ser == act /\ HasUart(variant)
                   put == HasUart(variant) /\ SerialPut(act, c2.stb)
               IN  /\ clk' = IF due THEN Flipped(clk, "sync") ELSE clk
                   /\ dirty' = IF ev2 THEN FALSE ELSE d1
                   /\ flips' = IF due THEN Count(flips, "sync") ELSE flips
                   /\ read_data_view' = IF rd THEN rv ELSE read_data_view
                   /\ psram_data' = IF wr
                                    THEN StoreWord(psram_data, w.addr, w.wdat)
                                    ELSE psram_data
                   /\ core' = c2
                   /\ uart' = IF put THEN Append(uart, c2.wdata % Pow2_8) ELSE uart
                   /\ memop' = IF mem
                               THEN [ rd |-> rd,
                                      ra |-> IF rd THEN core.addr ELSE 0,
                                      rv |-> IF rd THEN rv ELSE U32(0, 0),
                                      wr |-> wr,
                                      wa |-> IF wr THEN w.addr ELSE 0,
                                      ww |-> IF wr THEN w.wdat ELSE U32(0, 0),
                                      pwr |-> memop.wr,
                                      pwa |-> memop.wa,
                                      pww |-> memop.ww ]
                               ELSE memop
                   /\ ev' = ev \o When(due, Ev("flip", "sync"))
                               \o When(mem, Ev("get", "sync"))
                               \o When(rd, Ev("set", "sync"))
                               \o When(ev1, Ev("eval", "sync"))
                               \o When(ev1, Ev("get", "sync"))
                               \o When(wr, Ev("store", "sync"))
                               \o When(wr /\ EvalInBranch(variant), Ev("eval", "sync"))
                               \o When(evEnd, Ev("eval", "sync"))
                               \o When(ser, Ev("get", "sync"))
                               \o When(put, Ev("put", "sync"))
    /\ pc' = After(variant, "sync")
    /\ UNCHANGED << cfgvars, iter, time, timestamp_ns, clkdiv, rst, fs_strobe, inject,
                    spiflash_data, allocated, image_data, frames, mod_pmod,
                    pmod_clocks, bwvars, spiflash, sinkIdx, sinkImg, tracevars, scan >>

\* The harness writes injection channels on a sample boundary
\* (commented out in top_selftest).
Injects(v) == v # "top_selftest"

\* (mutant) every harness computes the samples before the increment
SampleIndexBefore(v, k) == k

\* The counter value the injected samples are computed from on a boundary
\* entered with counter value k: ++pmod_clocks precedes the computation;
\* example_dsp computes from n_samples and increments it afterwards.
SampleIndex(v, k) == IF v = "example_dsp" THEN k ELSE k + 1

\* Audio clock domain: the toggle and, on the active edge, the frame-sync
\* divider, the strobe and the injected samples.  example_dsp computes the
\* samples from n_samples and increments it afterwards; the others increment
\* pmod_clocks first.
AudioEdge ==
    /\ pc = "audio"
    /\ LET due      == ToggleDue(variant, "audio", timestamp_ns, clkdiv)
           act      == ActiveEdge(variant, "audio")
           boundary == act /\ Mod32(mod_pmod, FsDivider) = 0
           next     == pmod_clocks + 1
       IN  /\ clk' = IF due THEN Flipped(clk, "audio") ELSE clk
           /\ dirty' = (dirty \/ due)
           /\ flips' = IF due THEN Count(flips, "audio") ELSE flips
           /\ pmod_clocks' = IF boundary THEN next ELSE pmod_clocks
           /\ fs_strobe' = IF boundary THEN TRUE
                           ELSE IF act THEN FALSE ELSE fs_strobe
           /\ inject' = IF boundary /\ Injects(variant)
                        THEN SampleIndex(variant, pmod_clocks)
                        ELSE inject
           /\ mod_pmod' = IF act THEN Inc32(mod_pmod) ELSE mod_pmod
           /\ ev' = ev \o When(due, Ev("flip", "audio"))
                       \o When(boundary, Ev("set", "audio"))
    /\ pc' = After(variant, "audio")
    /\ UNCHANGED << cfgvars, iter, time, timestamp_ns, clkdiv, rst, core,
                    read_data_view, spiflash_data, allocated, psram_data,
                    image_data, frames, bwvars, spiflash, sinkIdx, sinkImg,
                    uart, tracevars, memop, scan >>

\* Fast clock domain (top_dsp): the toggle only.
FastEdge ==
    /\ pc = "fast"
    /\ LET due == ToggleDue(variant, "fast", timestamp_ns, clkdiv)
       IN  /\ clk' = IF due THEN Flipped(clk, "fast") ELSE clk
           /\ dirty' = (dirty \/ due)
           /\ flips' = IF due THEN Count(flips, "fast") ELSE flips
           /\ ev' = ev \o When(due, Ev("flip", "fast"))
    /\ pc' = After(variant, "fast")
    /\ UNCHANGED << cfgvars, iter, time, timestamp_ns, clkdiv, rst, core,
                    read_data_view, fs_strobe, inject, spiflash_data, allocated,
                    psram_data, image_data, frames, mod_pmod, pmod_clocks,
                    bwvars, spiflash, sinkIdx, sinkImg, uart, tracevars, memop, scan >>

\* (mutant) a busy sample is not counted
BusyCountDropped(c, lo) == lo

\* if (top->idle == 1) { idle_hi += 1; }
IdleCount(c, hi) == IF c.idle = 1 THEN hi + 1 ELSE hi

\* else { idle_lo += 1; }
BusyCount(c, lo) == IF c.idle = 1 THEN lo ELSE lo + 1

\* Bandwidth accounting, once per loop iteration.
BandwidthBlock ==
    /\ pc = "bw"
    /\ idle_hi' = IdleCount(core, idle_hi)
    /\ idle_lo' = BusyCount(core, idle_lo)
    /\ ev' = ev \o Ev("get", "bw")
    /\ pc' = After(variant, "bw")
    /\ UNCHANGED << cfgvars, iter, time, timestamp_ns, clkdiv, sigvars, allocated,
                    psram_data, image_data, frames, mod_pmod, pmod_clocks,
                    spiflash, sinkIdx, sinkImg, uart, tracevars, flips, memop, scan >>

\* The harness evaluates the core at the end of an iteration
\* (selftest evaluates inside its sync block only).
EvalAtEnd(v) == v # "selftest"

\* End of an iteration: time advances, the core is evaluated, a trace sample
\* is written, the loop counters are incremented.
EndBlock ==
    /\ pc = "end"
    /\ time' = IF IsCxxrtl(variant) THEN time ELSE time + TickUnits(variant)
    /\ core' \in (IF EvalAtEnd(variant) THEN Evaluate(core, dirty) ELSE { core })
    /\ dirty' = IF EvalAtEnd(variant) THEN FALSE ELSE dirty
    /\ TraceSample(HasTrace(variant), LoopSampleTime(variant, timestamp_ns, time'))
    /\ timestamp_ns' = IF IsCxxrtl(variant) THEN timestamp_ns + 1 ELSE timestamp_ns
    /\ clkdiv' = IF variant = "example_dsp" THEN clkdiv + 1 ELSE clkdiv
    /\ ev' = ev \o When(EvalAtEnd(variant), Ev("eval", "end"))
                \o When(HasTrace(variant), Ev("dump", "end"))
    /\ iter' = iter + 1
    /\ pc' = "loop"
    /\ UNCHANGED << cfgvars, clk, rst, read_data_view, fs_strobe, inject,
                    spiflash_data, allocated, psram_data, image_data, frames,
                    mod_pmod, pmod_clocks, bwvars, spiflash, sinkIdx, sinkImg,
                    uart, flips, memop, scan >>

\* ------------------------------------------------------------------------
\* The state of a long run with a quiet core
\*
\* A run of 1,000,000 ticks is entered at a tick boundary close to its end.
\* With a core that drives no peripheral signal the state at the boundary of
\* tick t is a function of t and of the divider's initial value g, written
\* out below; CheckpointSound states that the runs from the start pass
\* through exactly these states.
\* ------------------------------------------------------------------------

\* Ticks of the scenario run that are stepped through.
ScenarioWindow == 100

CeilDiv(a, b) == (a + b - 1) \div b

\* Flips of domain d in ticks 0 .. t-1.
FlipsBy(d, t) ==
    IF d \in Domains(variant) THEN CeilDiv(t, HalfPeriod(freq[d])) ELSE 0

\* Active edges among the first n flips of a clock that starts low.
ActiveAmong(v, n) == IF ActiveLevel(v) THEN (n + 1) \div 2 ELSE n \div 2

\* Sample boundaries among n active audio edges, the divider starting at g.
BoundariesAmong(g, n) ==
    LET first == (FsDivider - Mod32(g, FsDivider)) % FsDivider
    IN  IF n > first THEN (n - first - 1) \div FsDivider + 1 ELSE 0

\* The events of an iteration in which no clock flips.
QuietEvents(v) ==
    When(HasFlash(v), Ev("get", "flash") \o Ev("set", "flash"))
    \o When(HasBandwidth(v), Ev("get", "bw"))
    \o When(EvalAtEnd(v), Ev("eval", "end"))
    \o When(HasTrace(v), Ev("dump", "end"))

AtCheckpoint(t, g) ==
    LET n == ActiveAmong(variant, FlipsBy("audio", t))
        b == BoundariesAmong(g, n)
    IN  /\ pc = "loop"
        /\ time = IF IsCxxrtl(variant) THEN 0 ELSE 2 + TickUnits(variant) * t
        /\ timestamp_ns = IF IsCxxrtl(variant) THEN t ELSE t - 1
        /\ clkdiv = 0
        /\ clk = [ d \in Dom |-> FlipsBy(d, t) % 2 = 1 ]
        /\ rst = FALSE
        /\ core = QuietCore
        /\ dirty = FALSE
        /\ read_data_view = U32(0, 0)
        /\ fs_strobe = (n >= 1 /\ Mod32(Add32(g, n - 1), FsDivider) = 0)
        /\ inject = IF Injects(variant) /\ b > 0 THEN b ELSE -1
        /\ spiflash_data = U32(0, 0)
        /\ allocated = ("alloc" \in { SetupOrder(variant)[i] : i \in 1 .. Len(SetupOrder(variant)) })
        /\ psram_data = ZeroStore(MemSize)
        /\ image_data = ZeroStore(res[1] * res[2] * im_stride)
        /\ frames = 0
        /\ mod_pmod = Add32(g, n)
        /\ pmod_clocks = b
        /\ idle_hi = IF HasBandwidth(variant) THEN t ELSE 0
        /\ idle_lo = 0
        /\ spiflash = ZeroStore(MemSize)
        /\ sinkIdx = << >>
        /\ sinkImg = << >>
        /\ uart = << >>
        /\ last_dump = CASE variant = "tb_cxxrtl" -> t - 1
                         [] HasTrace(variant)     -> 2 + TickUnits(variant) * t
                         [] OTHER                 -> 0
        /\ prev_dump = CASE variant = "tb_cxxrtl" -> t - 2
                         [] HasTrace(variant)     -> 2 + TickUnits(variant) * (t - 1)
                         [] OTHER                 -> -1
        /\ dumps = CASE variant = "tb_cxxrtl" -> t + 1
                     [] HasTrace(variant)     -> t + 2
                     [] OTHER                 -> 1
        /\ iter = t
        /\ flips = [ d \in Dom |-> FlipsBy(d, t) ]
        /\ ev = QuietEvents(variant)
        /\ memop = NoMemOp
        /\ scan = << >>

\* The scenario run, entered ScenarioWindow ticks before its end.
InitScenario ==
    /\ focus = "scenario"
    /\ variant \in Variants \ { "example_dsp" }
    /\ freq = ScenarioFreq
    /\ res = <<1, 1>>
    /\ sim_time = Budget("scenario") * TickUnits(variant)
    /\ fw = NoFirmware
    /\ divz = "trap"
    /\ \E g \in DividerInit(variant) : AtCheckpoint(ScenarioTicks - ScenarioWindow, g)

\* The blocks of the loop body: the toggle test, which may trap, and then
\* the block.
DviBlock == IF TestTraps("dvi") THEN DivisionTrap("dvi") ELSE DviEdge
SyncBlock == IF TestTraps("sync") THEN DivisionTrap("sync") ELSE SyncEdge
AudioBlock == IF TestTraps("audio") THEN DivisionTrap("audio") ELSE AudioEdge
FastBlock == IF TestTraps("fast") THEN DivisionTrap("fast") ELSE FastEdge

Next ==
    \/ Periods
    \/ Allocate
    \/ ResetAssert
    \/ ResetRelease
    \/ LoopHead
    \/ FlashBlock
    \/ DviBlock
    \/ SyncBlock
    \/ AudioBlock
    \/ FastBlock
    \/ BandwidthBlock
    \/ EndBlock

Spec == Init /\ [][Next]_vars

InitSched == InitConfig("sched") /\ InitState
InitMem   == InitConfig("mem") /\ InitState
InitVideo == InitConfig("video") /\ InitState

SpecSched == InitSched /\ [][Next]_vars

\* The scenario run from its checkpoint, beside the short runs from the start
\* that CheckpointSound compares the checkpoint states with.
InitScenarioRuns == InitSched \/ InitScenario
SpecScenario == InitScenarioRuns /\ [][Next]_vars
SpecMem   == InitMem /\ [][Next]_vars
SpecVideo == InitVideo /\ [][Next]_vars

\* Runs whose core drives the pixel bus, with the pixels of the current frame
\* recorded.
InitFrame == InitConfig("frame") /\ InitState
SpecFrame == InitFrame /\ [][Next]_vars

\* Runs with a fast audio clock and a quiet core, over two divider periods.
InitAudio == InitConfig("audio") /\ InitState
SpecAudio == InitAudio /\ [][Next]_vars

\* Runs whose core drives its status outputs, with and without firmware.
InitStatus == InitConfig("status") /\ InitState
SpecStatus == InitStatus /\ [][Next]_vars

\* Runs for serial capture: the core drives the write strobe and data freely.
InitSerial == InitConfig("serial") /\ InitState
SpecSerial == InitSerial /\ [][Next]_vars

\* Runs over build configurations, sound and faulty: a zero or too high sync
\* frequency, a firmware offset with no file behind it.
InitConfigs == InitConfig("config") /\ InitState
SpecConfig == InitConfigs /\ [][Next]_vars

\* Runs on the timestamp: budgets that end at, inside and before an iteration.
InitTime == InitConfig("time") /\ InitState
SpecTime == InitTime /\ [][Next]_vars

\* The harness is one sequential program: whenever it has a next statement
\* it executes it.
SpecStatusFair == InitStatus /\ [][Next]_vars /\ WF_vars(Next)

\* ------------------------------------------------------------------------
\* Properties
\* ------------------------------------------------------------------------

Range(seq) == { seq[i] : i \in 1 .. Len(seq) }

\* The harnesses that toggle their clocks by the nanosecond timestamp
\* (example_dsp toggles by an iteration counter and has no frequencies).
Timestamped == variant # "example_dsp"

\* The half period of domain d as the claims state it: (1e9 / f) / 2.
StatedHalfPeriod(d) == (1000000000 \div freq[d]) \div 2

\* pc is inside the loop body
InBody == pc \in { "flash", "dvi", "sync", "audio", "fast", "bw", "end" }

\* C1: in every tick T of the run loop the timestamp of the toggle tests is
\* the one global tick count; a domain's clock flips in its block if and only
\* if T mod half_period = 0 and nowhere else, independently of the other
\* domains; the k-th flip of a domain (k >= 0) happens at tick k * half_period.
C1_ToggleRule ==
    [][ Timestamped =>
          /\ InBody => timestamp_ns = iter
          /\ \A d \in Domains(variant) :
               /\ pc = d =>
                    ((clk'[d] # clk[d]) <=> (timestamp_ns % StatedHalfPeriod(d) = 0))
               /\ (clk'[d] # clk[d]) =>
                    /\ pc = d
                    /\ timestamp_ns = flips[d] * StatedHalfPeriod(d)
                    /\ flips'[d] = flips[d] + 1
               /\ pc # d => flips'[d] = flips[d] ]_vars

\* C1 witness: at a tick T > 0 two domains have flipped in the same iteration,
\* one of them for at least the third time.
C1_Witness ==
    /\ Timestamped
    /\ timestamp_ns > 0
    /\ << "flip", "sync" >> \in Range(ev)
    /\ << "flip", "audio" >> \in Range(ev)
    /\ flips["sync"] >= 3

\* The runs from the start pass through the checkpoint states: at the boundary
\* of every tick t >= 1 whose predecessor flipped no clock, the state is the
\* one AtCheckpoint writes out.
CheckpointSound ==
    ( /\ Timestamped
      /\ pc = "loop"
      /\ iter >= 1
      /\ \A d \in Domains(variant) : (iter - 1) % HalfPeriod(freq[d]) # 0 )
    => \E g \in DividerInit(variant) : AtCheckpoint(iter, g)

\* The run so far is a whole number of iterations.
AtBoundary == pc \in { "loop", "done" }

\* C2 as stated: over a run of T ticks each domain has flipped
\* floor(T / half_period) times.
C2_FloorCount ==
    (Timestamped /\ AtBoundary) =>
        \A d \in Domains(variant) : flips[d] = iter \div StatedHalfPeriod(d)

\* C2 amended: over a run of T ticks (ticks 0 .. T-1) each domain has flipped
\* ceil(T / half_period) times, the flip of tick 0 included; that is
\* floor(T / half_period) only when half_period divides T.
C2_CeilCount ==
    (Timestamped /\ AtBoundary) =>
        \A d \in Domains(variant) :
            /\ flips[d] = (iter + StatedHalfPeriod(d) - 1) \div StatedHalfPeriod(d)
            /\ (iter % StatedHalfPeriod(d) = 0) => flips[d] = iter \div StatedHalfPeriod(d)

\* C2 witness: a run of the 60 MHz / 25.175 MHz / 12 MHz configuration has
\* ended after T ticks with T a multiple of no half period.
C2_Witness ==
    /\ pc = "done"
    /\ variant = "example_vectorscope"
    /\ freq.sync = 60000000 /\ freq.dvi = 25175000
    /\ iter > 82
    /\ \A d \in Domains(variant) : iter % StatedHalfPeriod(d) # 0
    /\ flips["audio"] = 3

\* The domains of the scenario.
ScenarioDomains == { "sync", "dvi", "audio" } \cap Domains(variant)

\* C3 as stated: after the scenario run of 1,000,000 ticks (half periods 8,
\* 19 and 41 ns) each domain has flipped floor(1e6 / half_period) times.
C3_ScenarioFloor ==
    (pc = "done" /\ iter = 1000000) =>
        \A d \in ScenarioDomains : flips[d] = 1000000 \div StatedHalfPeriod(d)

\* C3 amended: after the scenario run each domain has flipped
\* ceil(1e6 / half_period) times: 125000 (sync, 8 ns), 52632 (dvi, 19 ns)
\* and 24391 (audio, 41 ns); the half periods are 8, 19 and 41 ns.
C3_ScenarioCeil ==
    focus = "scenario" =>
        /\ StatedHalfPeriod("sync") = 8
        /\ StatedHalfPeriod("dvi") = 19
        /\ StatedHalfPeriod("audio") = 41
        /\ (pc = "done" /\ iter = 1000000) =>
            \A d \in ScenarioDomains :
                /\ flips[d] = (1000000 + StatedHalfPeriod(d) - 1) \div StatedHalfPeriod(d)
                /\ flips[d] = CASE d = "sync"  -> 125000
                                [] d = "dvi"   -> 52632
                                [] d = "audio" -> 24391

\* C3 witness: a three-domain harness has finished the scenario run.
C3_Witness ==
    /\ pc = "done"
    /\ iter = 1000000
    /\ variant = "vectorscope_cxxrtl"
    /\ flips["dvi"] = 52632

\* An iteration's events e keep the order "flip, evaluate, then sample": every
\* sample of a core output by a domain's emulator that follows a flip of that
\* domain's clock has an evaluation between the two.
EvalBetweenFlipAndGet(e) ==
    \A i, j \in 1 .. Len(e) :
        (i < j /\ e[i][1] = "flip" /\ e[j][1] = "get" /\ e[j][2] = e[i][2])
        => \E k \in (i + 1) .. (j - 1) : e[k][1] = "eval"

\* C4 as stated: in every harness variant, after a domain's clock is flipped
\* the core is evaluated before an emulator of that domain samples a core
\* output in the same tick.
C4_EvalBeforeSample == EvalBetweenFlipAndGet(ev)

\* C5: a word written at address A on one active edge of the memory domain
\* and read at A on the next active edge is published unchanged on the
\* core's read-data input.
C5_RoundTrip ==
    (memop.rd /\ memop.pwr /\ memop.pwa = memop.ra) =>
        /\ read_data_view = memop.pww
        /\ memop.rv = memop.pww

\* C5 witness: the word 0xFF0080FF, written at the upper address on one
\* active edge, has been read back on the next.
C5_Witness ==
    /\ memop.rd /\ memop.pwr
    /\ memop.ra = MemSize - 4 /\ memop.pwa = memop.ra
    /\ memop.pww = U32(65280, 33023)
    /\ read_data_view = U32(65280, 33023)

\* The sync block about to run serves a read: an active edge of the memory
\* domain with read-ready asserted.
ReadServed ==
    /\ pc = "sync"
    /\ HasPsram(variant)
    /\ timestamp_ns % StatedHalfPeriod("sync") = 0
    /\ clk["sync"] # ActiveLevel(variant)
    /\ core.rr

\* C6: on an active edge with read-ready asserted and address A the word
\* published is mem[A] + 256 mem[A+1] + 65536 mem[A+2] + 16777216 mem[A+3]
\* (its low half is mem[A] + 256 mem[A+1], its high half mem[A+2] +
\* 256 mem[A+3]), and the read changes no byte of the backing store: the store
\* changes on that edge only if a write is served as well.
C6_ReadLittleEndian ==
    [][ ReadServed =>
          LET a == core.addr
          IN  /\ Lo(read_data_view') = psram_data[a] + 256 * psram_data[a + 1]
              /\ Hi(read_data_view') = psram_data[a + 2] + 256 * psram_data[a + 3]
              /\ memop'.rd /\ memop'.ra = a
              /\ ~memop'.wr => psram_data' = psram_data ]_vars

\* C6 witness: a read has published 0xFF0080FF, assembled from the bytes
\* FF 80 00 FF of the backing store, and no write was served on that edge.
C6_Witness ==
    /\ memop.rd /\ ~memop.wr
    /\ read_data_view = U32(65280, 33023)
    /\ psram_data[memop.ra] = 255 /\ psram_data[memop.ra + 1] = 128
    /\ psram_data[memop.ra + 2] = 0 /\ psram_data[memop.ra + 3] = 255

\* Byte i (0 .. 3) of a word: W div 256^i mod 256.
ByteOf(w, i) ==
    CASE i = 0 -> Lo(w) % 256
      [] i = 1 -> Lo(w) \div 256
      [] i = 2 -> Hi(w) % 256
      [] i = 3 -> Hi(w) \div 256

\* A write has been served in the current iteration.
WriteServed == << "store", "sync" >> \in Range(ev)

\* C7: on an active edge with write-ready asserted, address A and word W, byte
\* i of W is stored at mem[A+i], i = 0 .. 3, and the core is evaluated after
\* the store, inside the sync block, in every variant with a burst memory.
C7_WriteLittleEndian ==
    WriteServed =>
        /\ HasPsram(variant)
        /\ memop.wr
        /\ \A i \in 0 .. 3 : psram_data[memop.wa + i] = ByteOf(memop.ww, i)
        /\ \E i, j \in 1 .. Len(ev) :
               /\ i < j
               /\ ev[i] = << "store", "sync" >>
               /\ ev[j] = << "eval", "sync" >>

\* C7 witness: top_selftest, which evaluates once after both branches, has
\* stored 0xFF0080FF.
C7_Witness ==
    /\ WriteServed
    /\ variant = "top_selftest"
    /\ memop.ww = U32(65280, 33023)
    /\ psram_data[memop.wa + 1] = 128

\* The block about to run is domain d's, on an active edge of d: the flip is
\* due and the level after it is the harness's active level.
OnActiveEdge(d) ==
    /\ pc = d
    /\ timestamp_ns % StatedHalfPeriod(d) = 0
    /\ clk[d] # ActiveLevel(variant)

\* C8: the burst-memory backing store changes only on an active edge of its
\* own domain on which a write is served, and then only in the four bytes
\* A .. A+3; the frame buffer changes only in the pixel domain's block; the
\* flash backing store never changes.  Hence no block of another emulator, no
\* non-active edge and no other tick changes the burst memory.
C8_StoresOwned ==
    [][ Timestamped =>
          /\ (psram_data' # psram_data) =>
                /\ OnActiveEdge("sync")
                /\ HasPsram(variant)
                /\ memop'.wr
                /\ \A i \in DOMAIN psram_data :
                       (i < memop'.wa \/ i > memop'.wa + 3) => psram_data'[i] = psram_data[i]
          /\ (image_data' # image_data) => (pc = "dvi" /\ HasCapture(variant))
          /\ spiflash' = spiflash ]_vars

\* C8 witness: in top_selftest, which runs all emulators, the burst memory
\* holds a written word, the frame buffer a captured pixel, the audio emulator
\* has passed a sample boundary and the run has ended.
C8_Witness ==
    /\ variant = "top_selftest"
    /\ pc = "done"
    /\ psram_data[MemSize - 1] = 255
    /\ image_data[0] = 1
    /\ pmod_clocks >= 1

\* C9: on an active edge of the pixel domain with sampled coordinate (x, y)
\* inside the active area the bytes r, g, b are stored at offsets
\* (y*H_ACTIVE + x)*3 + 0, 1, 2 and no other byte changes; outside the active
\* area, and anywhere but on such an edge, the frame buffer is unchanged.
C9_PixelStore ==
    [][ /\ (OnActiveEdge("dvi") /\ HasCapture(variant)) =>
             LET x == core.x
                 y == core.y
                 o == (y * DVI_H_ACTIVE + x) * 3
             IN  IF x < DVI_H_ACTIVE /\ y < DVI_V_ACTIVE
                 THEN image_data' =
                        [ i \in DOMAIN image_data |->
                            CASE i = o     -> core.rgb[1]
                              [] i = o + 1 -> core.rgb[2]
                              [] i = o + 2 -> core.rgb[3]
                              [] OTHER     -> image_data[i] ]
                 ELSE image_data' = image_data
        /\ (image_data' # image_data) => (OnActiveEdge("dvi") /\ HasCapture(variant)) ]_vars

\* C9 witness: both pixels of a 2 x 1 frame hold captured colours, the second
\* pixel at offsets 3, 4, 5.
C9_Witness ==
    /\ res = <<2, 1>>
    /\ image_data[0] = 17
    /\ image_data[3] = 255 /\ image_data[4] = 128 /\ image_data[5] = 0

\* C10: a frame is handed to the image sink exactly on an active edge of the
\* pixel domain whose sampled coordinate is (H_ACTIVE-1, V_ACTIVE-1), one frame
\* per such edge, and at no other step: not at the end of the run either.
C10_EmitOnLastPixel ==
    [][ LET last == /\ OnActiveEdge("dvi")
                    /\ HasCapture(variant)
                    /\ core.x = DVI_H_ACTIVE - 1
                    /\ core.y = DVI_V_ACTIVE - 1
        IN  IF last
            THEN /\ Len(sinkIdx') = Len(sinkIdx) + 1
                 /\ sinkImg' = image_data'
            ELSE /\ sinkIdx' = sinkIdx
                 /\ sinkImg' = sinkImg ]_vars

\* C10 witness: a run has ended with one frame handed over and a later,
\* partial frame in the buffer that was not handed over.
C10_Witness ==
    /\ pc = "done"
    /\ Len(sinkIdx) = 1
    /\ image_data # sinkImg

\* C10 witness of the run without a frame: display capture has stored pixels,
\* the last pixel was never sampled, the run has ended and the sink is empty.
C10_NoFrameRun ==
    /\ pc = "done"
    /\ HasCapture(variant)
    /\ image_data[0] = 255
    /\ sinkIdx = << >>

\* The pixels captured since the last hand-over are one core-generated frame
\* that has ended: every coordinate of the active area was sampled exactly
\* once, (0, 0) first and (H_ACTIVE-1, V_ACTIVE-1) last.
CoreFrame(sc) ==
    /\ Len(sc) = DVI_H_ACTIVE * DVI_V_ACTIVE
    /\ \A i, j \in 1 .. Len(sc) : (sc[i].x = sc[j].x /\ sc[i].y = sc[j].y) => i = j
    /\ sc[1].x = 0 /\ sc[1].y = 0
    /\ IsLastPixel(sc[Len(sc)].x, sc[Len(sc)].y)

\* The three bytes of pixel (x, y) in a frame.
PixelOf(img, x, y) ==
    << img[(y * DVI_H_ACTIVE + x) * 3],
       img[(y * DVI_H_ACTIVE + x) * 3 + 1],
       img[(y * DVI_H_ACTIVE + x) * 3 + 2] >>

\* C11: when the core has emitted one frame (every coordinate of the active
\* area once, from (0, 0) to the last pixel) the capture has handed over
\* exactly one frame for it, on the edge of its last pixel, and the frame
\* handed over holds at every pixel the value written during that frame: at
\* (0, 0) the first value written, at the last pixel the last one, stored
\* before the hand-over on the same edge.
C11_FrameComplete ==
    (focus = "frame" /\ HasCapture(variant) /\ CoreFrame(scan)) =>
        /\ sinkIdx # << >>
        /\ \A i \in 1 .. Len(scan) :
               /\ PixelOf(sinkImg, scan[i].x, scan[i].y) = scan[i].rgb
               /\ scan[i].emitted <=> (i = Len(scan))
        /\ PixelOf(sinkImg, 0, 0) = scan[1].rgb
        /\ PixelOf(sinkImg, DVI_H_ACTIVE - 1, DVI_V_ACTIVE - 1) = scan[Len(scan)].rgb

\* C11 witness: the second frame of a run is complete and handed over, its
\* two pixels written with different colours, the first pixel's colour
\* differing from the one the frame before may have left.
C11_Witness ==
    /\ focus = "frame"
    /\ CoreFrame(scan)
    /\ Len(sinkIdx) = 2
    /\ scan[1].rgb = << 255, 128, 0 >>
    /\ scan[2].rgb = << 17, 34, 51 >>
    /\ sinkImg[0] = 255 /\ sinkImg[3] = 17

\* C12: the k-th frame handed to the sink carries index k-1 (the first one
\* index 0), so no two frames of a run carry the same index; the frame counter
\* equals the number of frames handed over and changes only when one is.
C12_FrameIndex ==
    /\ \A k \in 1 .. Len(sinkIdx) : sinkIdx[k] = k - 1
    /\ frames = Len(sinkIdx)

\* C12 witness: three frames have been handed over.
C12_Witness ==
    /\ Len(sinkIdx) = 3
    /\ sinkIdx[3] = 2
    /\ frames = 3

\* Active edges of the audio domain so far.
AudioEdges == ActiveAmong(variant, flips["audio"])

\* C13 as stated: on an active edge of the audio domain the strobe is asserted
\* if and only if the count of the active edges before it is a multiple of
\* 256 (the first active edge of the run being a boundary), and it is never
\* asserted on two consecutive active edges.
C13_StrobeOnEdgeCount ==
    [][ (pc = "audio" /\ ActiveEdge(variant, "audio")) =>
          /\ fs_strobe' <=> (AudioEdges % FsDivider = 0)
          /\ fs_strobe => ~fs_strobe' ]_vars

\* The audio block about to run is on a sample boundary.
OnBoundary ==
    /\ pc = "audio"
    /\ ActiveEdge(variant, "audio")
    /\ Mod32(mod_pmod, FsDivider) = 0

\* C14 as stated: on every sample boundary the counter is incremented by one
\* and, in every harness that injects, the injected values are computed from
\* the incremented counter; elsewhere counter and injection are unchanged.
C14_InjectAfterIncrement ==
    [][ /\ OnBoundary =>
             /\ pmod_clocks' = pmod_clocks + 1
             /\ Injects(variant) => inject' = pmod_clocks'
        /\ ~OnBoundary => (pmod_clocks' = pmod_clocks /\ inject' = inject) ]_vars

\* C14 amended: on every sample boundary the counter is incremented by one;
\* the values injected on the k-th boundary are computed from k in the
\* harnesses that increment first and from k-1 in example_dsp, which
\* increments afterwards; top_selftest injects nothing; elsewhere counter and
\* injection are unchanged.
C14_InjectIndex ==
    [][ /\ OnBoundary =>
             /\ pmod_clocks' = pmod_clocks + 1
             /\ (Injects(variant) /\ variant # "example_dsp") => inject' = pmod_clocks'
             /\ variant = "example_dsp" => inject' = pmod_clocks' - 1
             /\ ~Injects(variant) => inject' = inject
        /\ ~OnBoundary => (pmod_clocks' = pmod_clocks /\ inject' = inject) ]_vars

\* C14 witness: example_dsp has passed its second boundary and injected the
\* samples of index 1.
C14_Witness ==
    /\ variant = "example_dsp"
    /\ pmod_clocks = 2
    /\ inject = 1

\* C15 as stated: what the harness does is fixed by the configuration and
\* the tick: after n active audio edges the number of strobes asserted and the
\* level of the strobe are those of a divider that starts at its configured
\* value 0.
C15_Determined ==
    /\ pmod_clocks = BoundariesAmong(U32(0, 0), AudioEdges)
    /\ fs_strobe = (AudioEdges >= 1 /\ (AudioEdges - 1) % FsDivider = 0)

\* C16: in every loop iteration, whether or not a clock flips in it, the
\* flash emulator publishes on the core's read-data input the 32-bit word of
\* the flash backing store at the core-provided (word) address, bytes 4a ..
\* 4a+3 in little-endian order; the flash backing store is not modified after
\* it was filled at session start.
C16_FlashPublished ==
    [][ HasFlash(variant) =>
          /\ pc = "flash" =>
               LET a == core.faddr
               IN  /\ Lo(spiflash_data') = spiflash[4 * a] + 256 * spiflash[4 * a + 1]
                   /\ Hi(spiflash_data') = spiflash[4 * a + 2] + 256 * spiflash[4 * a + 3]
          /\ pc = "end" => << "set", "flash" >> \in Range(ev)
          /\ pc # "alloc" => spiflash' = spiflash ]_vars

\* C16 witness: at the end of a tick in which no clock flipped the word
\* 0x0000FF05 of the loaded firmware stands on the read-data input, read at
\* word address 1.
C16_Witness ==
    /\ variant = "top_selftest"
    /\ pc = "end"
    /\ \A d \in Dom : << "flip", d >> \notin Range(ev)
    /\ core.faddr = 1
    /\ spiflash[5] = 255
    /\ spiflash_data = U32(0, 65285)

\* The store holds the file at offset o and zero elsewhere.
HoldsImage(m, o, file) ==
    /\ \A i \in 0 .. Len(file) - 1 : (o + i) \in DOMAIN m /\ m[o + i] = file[i + 1]
    /\ \A i \in DOMAIN m : (i < o \/ i >= o + Len(file)) => m[i] = 0

\* C17 as stated: a firmware file shorter than the backing store, loaded at
\* offset O, leaves the run going, every byte outside [O, O+len) zero and byte
\* O+i equal to file byte i, in the flash store and in the burst memory alike.
C17_FirmwareLoad ==
    (Len(fw.file) < MemSize /\ pc \in { "loop", "flash", "aborted" }
        /\ iter = 0 /\ variant = "top_selftest") =>
        /\ pc # "aborted"
        /\ fw.flash >= 0 => HoldsImage(spiflash, fw.flash, fw.file)
        /\ fw.psram >= 0 => HoldsImage(psram_data, fw.psram, fw.file)

\* Samples of the idle/busy signal taken so far.
StatusSamples == iter + (IF pc = "end" THEN 1 ELSE 0)

\* C18 as stated: the status signal is sampled once per sync-domain edge, so
\* after a whole number of ticks idle_count + busy_count is the number of
\* sync clock edges so far (all of them, or the active ones).
C18_SumIsSyncEdges ==
    (HasBandwidth(variant) /\ AtBoundary) =>
        (idle_hi + idle_lo) \in { flips["sync"], ActiveAmong(variant, flips["sync"]) }

\* C18 amended: the status signal is sampled once per loop iteration (every
\* scheduler tick, whether or not the sync clock flips in it), each sample
\* increments exactly one of the two counters by one, and at every point of
\* the run idle_count + busy_count equals the number of samples taken.
C18_SumIsTicks ==
    [][ HasBandwidth(variant) =>
          /\ idle_hi + idle_lo = StatusSamples
          /\ pc = "bw" =>
               \/ (idle_hi' = idle_hi + 1 /\ idle_lo' = idle_lo)
               \/ (idle_hi' = idle_hi /\ idle_lo' = idle_lo + 1)
          /\ pc # "bw" => (idle_hi' = idle_hi /\ idle_lo' = idle_lo) ]_vars

\* C18 witness: a run has ended with idle and busy samples counted and fewer
\* sync clock edges than samples.
C18_Witness ==
    /\ pc = "done"
    /\ HasBandwidth(variant)
    /\ idle_hi >= 2 /\ idle_lo >= 2
    /\ flips["sync"] < idle_hi + idle_lo

\* The harness owns a backing store or a frame buffer.
HasStores(v) == HasPsram(v) \/ HasCapture(v) \/ HasFlash(v)

\* The reset phase as the harnesses share it: the resets are asserted and the
\* core evaluated, then the resets are deasserted together and the core
\* evaluated again, all before the first tick; no clock flips while a reset
\* is asserted, and no reset is asserted after the loop is entered.
ResetPhase ==
    /\ pc = "reset_assert" => (~rst /\ rst' /\ ~dirty')
    /\ pc = "reset_release" => (rst /\ ~rst' /\ ~dirty')
    /\ rst' # rst => pc \in { "reset_assert", "reset_release" }
    /\ (rst \/ rst') => (clk' = clk /\ iter = 0)
    /\ (pc = "loop" /\ iter = 0) =>
         /\ Len(ev) >= 4
         /\ SubSeq(ev, Len(ev) - 3, Len(ev)) =
                << << "set", "reset_assert" >>, << "eval", "reset_assert" >>,
                   << "set", "reset_release" >>, << "eval", "reset_release" >> >>
         /\ ~rst
         /\ \A d \in Dom : flips[d] = 0

\* C19 as stated: the reset phase, and the backing stores are allocated and
\* filled before the reset phase begins.
C19_StoresBeforeReset ==
    [][ /\ ResetPhase
        /\ (HasStores(variant) /\ pc = "reset_assert") => allocated ]_vars

\* C19 amended: the reset phase, and the backing stores are allocated and
\* filled before the first tick: before the reset phase in the CXXRTL
\* harnesses, after it in the Verilator harnesses.
C19_ResetThenRun ==
    [][ /\ ResetPhase
        /\ (HasStores(variant) /\ pc = "loop") => allocated
        /\ (HasStores(variant) /\ IsCxxrtl(variant) /\ pc = "reset_assert") => allocated
        /\ (HasStores(variant) /\ ~IsCxxrtl(variant) /\ (rst \/ rst')) => ~allocated ]_vars

\* C19 witness: top_selftest, which resets first and allocates afterwards, is
\* in its first tick with the stores allocated and the resets deasserted.
C19_Witness ==
    /\ variant = "top_selftest"
    /\ pc = "dvi"
    /\ iter = 0
    /\ allocated
    /\ ~rst

\* The simulated time the loop condition compares with the budget.
SimulatedTime == IF IsCxxrtl(variant) THEN timestamp_ns ELSE time

\* The core has reported the halt condition to a harness that observes one.
Halted == HasFinish(variant) /\ core.fin

C20_BudgetExhausted ==
    /\ pc = "done"
    /\ ~Halted
    /\ SimulatedTime >= sim_time

\* The sync clock has just risen: the step is a sync-domain active edge of
\* the Verilator harnesses that capture the serial port.
SyncRose == ~clk["sync"] /\ clk'["sync"]

C21_TopSelftestWrites ==
    /\ variant = "top_selftest"
    /\ Len(uart) >= 2
    /\ uart[1] # uart[2]

\* The events of one kind in the log of an iteration.
EventsOf(log, what) == { i \in DOMAIN log : log[i][1] = what }

\* The steps of the running loop before the end of the iteration.
InTick == pc \in { "loop", "flash", "dvi", "sync", "audio", "fast", "bw" }

\* C22: with tracing enabled the end of every iteration hands exactly one
\* sample to the trace sink, after the last evaluation of the iteration, and
\* no other step of the loop hands one over, however many evaluations the
\* memory emulator triggered; with tracing disabled the loop hands over none.
C22_OneSamplePerTick ==
    [][ /\ InTick => dumps' = dumps
        /\ (pc = "end" /\ ~HasTrace(variant)) => dumps' = dumps
        /\ (pc = "end" /\ HasTrace(variant)) =>
             /\ dumps' = dumps + 1
             /\ EventsOf(ev', "dump") = { Len(ev') }
             /\ pc' = "loop" /\ iter' = iter + 1 ]_vars

\* C22 witness: example_vectorscope has completed a tick in which the memory
\* emulator evaluated the core in the read branch and in the write branch,
\* and the tick handed over one sample.
C22_Witness ==
    /\ variant = "example_vectorscope"
    /\ pc = "loop"
    /\ iter >= 1
    /\ Cardinality(EventsOf(ev, "eval")) >= 3
    /\ Cardinality(EventsOf(ev, "dump")) = 1
    /\ dumps = iter + 2

\* A domain of the harness has a frequency the toggle test cannot divide by.
BadFrequency ==
    UsesPeriods(variant) /\ \E d \in Domains(variant) : TestUndefined(freq[d])

\* A firmware offset is configured and there is no file to load.
FirmwareMissing == (fw.flash >= 0 \/ fw.psram >= 0) /\ fw.file = MissingFile

\* The session has not begun to simulate: no reset asserted, no evaluation,
\* no trace sample, no tick, and the loop is neither entered nor finished.
NothingRun ==
    /\ pc \in { "periods", "alloc", "reset_assert", "aborted" }
    /\ ~rst
    /\ ev = << >>
    /\ dumps = 0
    /\ iter = 0
    /\ time = 0

\* C23: with a zero or too high domain frequency, or with the firmware file
\* of a configured offset missing, the session never evaluates the core,
\* resets it or ticks.
C23_FatalBeforeStart ==
    (focus = "config" /\ (BadFrequency \/ FirmwareMissing)) => NothingRun

\* C23, the firmware half alone.
C23_MissingFirmwareFatal ==
    (focus = "config" /\ FirmwareMissing) => NothingRun

\* C23, the frequency half alone, in the builds that trap on the division.
C23_BadFrequencyFatal ==
    (focus = "config" /\ BadFrequency /\ divz = "trap") => NothingRun

\* The half period of domain d in the harness's units of simulated time:
\* ns_in_<domain>_cycle/2 nanoseconds (1000 ps each in the Verilator
\* harnesses); in example_dsp one iteration for the sync clock and five for
\* the audio clock.
HalfPeriodIn(v, d) ==
    CASE v = "example_dsp" -> IF d = "sync" THEN 8333 ELSE ClkDivRatio * 8333
      [] IsCxxrtl(v)       -> HalfPeriod(freq[d])
      [] OTHER             -> HalfPeriod(freq[d]) * 1000

\* Simulated time never decreases, and a tick of the loop advances it by the
\* harness's one increment, at its end.
TimeAdvances ==
    /\ SimulatedTime' >= SimulatedTime
    /\ InTick => SimulatedTime' = SimulatedTime
    /\ pc = "end" => SimulatedTime' = SimulatedTime + TickUnits(variant)

\* C24 as stated: time advances by one fixed increment per tick, and in every
\* harness the increment is strictly smaller than every half period, so that
\* no clock flips in two successive ticks.
C24_IncrementBelowHalfPeriod ==
    /\ [][TimeAdvances]_vars
    /\ [](\A d \in Domains(variant) :
            /\ TickUnits(variant) < HalfPeriodIn(variant, d)
            /\ (pc = "loop" /\ iter >= 2) => flips[d] < iter)

\* C24 amended: the increment is strictly smaller than every half period in
\* the harnesses that test the timestamp; in example_dsp it equals the half
\* period of the sync clock, which flips in every tick.
C24_IncrementUpToHalfPeriod ==
    /\ [][TimeAdvances]_vars
    /\ [](\A d \in Domains(variant) :
            IF variant = "example_dsp" /\ d = "sync"
            THEN /\ TickUnits(variant) = HalfPeriodIn(variant, d)
                 /\ pc = "loop" => flips[d] = iter
            ELSE /\ TickUnits(variant) < HalfPeriodIn(variant, d)
                 /\ (pc = "loop" /\ iter >= 2) => flips[d] < iter)

\* C24 witness: example_dsp has flipped its sync clock in each of three
\* successive ticks of 8333 ps.
C24_Witness ==
    /\ variant = "example_dsp"
    /\ pc = "loop"
    /\ iter = 3
    /\ flips["sync"] = 3
    /\ time = 2 + 3 * 8333

\* A Verilator harness that derives a nanosecond timestamp from the time.
VerilatorTimestamped == ~IsCxxrtl(variant) /\ variant # "example_dsp"

\* C25: in the Verilator harnesses that test the timestamp, the time is 2 ps
\* when the loop is entered and grows by 1000 ps per iteration, so that the
\* timestamp of iteration i is i; a run in which the core never halts
\* performs ceil((sim_time - 2) / 1000) iterations.
C25_TimestampIsIteration ==
    (focus = "time" /\ VerilatorTimestamped) =>
        /\ (pc = "loop" \/ InTick \/ pc = "end") => time = 2 + 1000 * iter
        /\ (InTick /\ pc # "loop") \/ pc = "end" =>
              timestamp_ns = iter /\ timestamp_ns = time \div 1000
        /\ pc = "done" => iter = CeilDiv(sim_time - 2, 1000)

\* C25 witness: a run whose budget ends 3 ps into an iteration has finished
\* after one iteration more than the budget holds whole.
C25_Witness ==
    /\ focus = "time"
    /\ variant = "top_dsp"
    /\ pc = "done"
    /\ sim_time = Budget(focus) * 1000 + 3
    /\ iter = Budget(focus) + 1
    /\ timestamp_ns = Budget(focus)

\* Numbers beyond 2^31 are held as three limbs of five decimal digits, the
\* most significant first.
LimbBase == 100000

\* example_dsp's budget less the 2 ps of the reset phase:
\* sim_time - 2 = 100000000000 - 2 = 99999999998.
DspBudgetLessReset == << 9, 99999, 99998 >>

\* 2^32 = 4294967296, the first value a uint32_t cannot hold.
TwoTo32 == << 0, 42949, 67296 >>

\* Long division of a three-limb number by d < 20000: quotient and remainder.
LimbDiv(n, d) ==
    LET r1 == n[1] % d
        a2 == r1 * LimbBase + n[2]
        r2 == a2 % d
        a3 == r2 * LimbBase + n[3]
    IN  [ q |-> << n[1] \div d, a2 \div d, a3 \div d >>, r |-> a3 % d ]

\* The successor of a three-limb number.
LimbInc(n) ==
    CASE n[3] + 1 < LimbBase -> << n[1], n[2], n[3] + 1 >>
      [] n[2] + 1 < LimbBase -> << n[1], n[2] + 1, 0 >>
      [] OTHER               -> << n[1] + 1, 0, 0 >>

LimbLess(a, b) ==
    \/ a[1] < b[1]
    \/ a[1] = b[1] /\ a[2] < b[2]
    \/ a[1] = b[1] /\ a[2] = b[2] /\ a[3] < b[3]

\* The iterations of example_dsp's run, ceil((sim_time - 2) / 8333), which
\* is also the last value of its iteration counter.
DspRunIterations ==
    LET qr == LimbDiv(DspBudgetLessReset, 8333)
    IN  IF qr.r = 0 THEN qr.q ELSE LimbInc(qr.q)

\* C26: in example_dsp, after n iterations the sync clock has flipped n times
\* and the audio clock ceil(n/5) times, the first time in iteration 0; the
\* iteration counter equals n, a run performs ceil((sim_time - 2) / 8333)
\* iterations, and for the budget of 100000000000 ps that number,
\* 12000481, is below 2^32: the counter does not wrap.
C26_DspClockRatio ==
    /\ (variant = "example_dsp" /\ pc = "loop") =>
          /\ time = 2 + 8333 * iter
          /\ clkdiv = iter
          /\ flips["sync"] = iter
          /\ 5 * flips["audio"] >= iter
          /\ 5 * (flips["audio"] - 1) < iter
          /\ iter >= 1 => flips["audio"] >= 1
    /\ (variant = "example_dsp" /\ pc = "done") =>
          /\ 8333 * iter >= sim_time - 2
          /\ 8333 * (iter - 1) < sim_time - 2
    /\ DspRunIterations = << 0, 120, 481 >>
    /\ LimbLess(DspRunIterations, TwoTo32)

\* C26 witness: example_dsp has run eleven iterations, with eleven sync flips
\* and three audio flips (iterations 0, 5 and 10).
C26_Witness ==
    /\ variant = "example_dsp"
    /\ pc = "loop"
    /\ iter = 11
    /\ flips["sync"] = 11
    /\ flips["audio"] = 3
    /\ clk["audio"]

\* C27 as stated: every sample handed to the trace sink carries a larger
\* timestamp than the sample before it.
C27_SamplesStrictlyIncrease ==
    dumps >= 2 => prev_dump < last_dump

\* C27 amended: the timestamps of the samples never decrease.  They strictly
\* increase in the Verilator harnesses; tb_cxxrtl samples timestamp 0 twice,
\* before the reset phase and at the end of the first iteration, and strictly
\* increases from then on; sim.cpp hands over the one sample at 0.
C27_SamplesIncrease ==
    /\ dumps >= 2 =>
          IF variant = "tb_cxxrtl" /\ dumps = 2
          THEN prev_dump = 0 /\ last_dump = 0
          ELSE prev_dump < last_dump
    /\ variant = "vectorscope_cxxrtl" => dumps <= 1 /\ last_dump <= 0
    /\ dumps = 0 <=> last_dump = -1

\* C27 witness: tb_cxxrtl has run three iterations; its samples so far were
\* 0, 0, 1 and 2.
C27_Witness ==
    /\ variant = "tb_cxxrtl"
    /\ pc = "loop"
    /\ iter = 3
    /\ dumps = 4
    /\ prev_dump = 1
    /\ last_dump = 2

\* C27 witness of the repeated timestamp.
C27_ZeroSampledTwice ==
    /\ variant = "tb_cxxrtl"
    /\ dumps = 2
    /\ prev_dump = 0
    /\ last_dump = 0

\* The step is an active edge of the memory domain: the sync clock has
\* flipped to the harness's active level.
MemoryEdge ==
    /\ pc = "sync"
    /\ HasPsram(variant)
    /\ clk'["sync"] # clk["sync"]
    /\ clk'["sync"] = ActiveLevel(variant)

\* Position of the sync block's first event of a kind in the log, 0 if
\* there is none.
FirstOf(log, what) ==
    LET at == { i \in DOMAIN log : log[i] = << what, "sync" >> }
    IN  IF at = { } THEN 0 ELSE CHOOSE i \in at : \A j \in at : i <= j

\* C28: on an active edge of the memory domain the read is served first,
\* from the bytes stored before the edge, also when the same edge writes the
\* same address; where the harness evaluates the core after the read,
\* write-ready, the address and the write word are those the core shows
\* after that evaluation; the write then stores into the bytes the read saw.
C28_ReadBeforeWrite ==
    [][ MemoryEdge =>
          /\ memop'.rd = core.rr
          /\ memop'.rd =>
                /\ memop'.ra = core.addr
                /\ memop'.rv = ReadWord(psram_data, core.addr)
                /\ read_data_view' = memop'.rv
          /\ (memop'.rd /\ EvalInBranch(variant)) =>
                /\ memop'.wr = core'.wr
                /\ memop'.wr => (memop'.wa = core'.addr /\ memop'.ww = core'.wdat)
                /\ FirstOf(ev', "set") < FirstOf(ev', "eval")
                /\ memop'.wr => FirstOf(ev', "eval") < FirstOf(ev', "store")
          /\ ~(memop'.rd /\ EvalInBranch(variant)) =>
                /\ memop'.wr = core.wr
                /\ memop'.wr => (memop'.wa = core.addr /\ memop'.ww = core.wdat)
          /\ psram_data' = IF memop'.wr
                           THEN StoreWord(psram_data, memop'.wa, memop'.ww)
                           ELSE psram_data ]_vars

\* C28 witness: vectorscope_cxxrtl has served a read and a write of one
\* address on one edge; the word read is not the word written, which is now
\* in the store.
C28_Witness ==
    /\ variant = "vectorscope_cxxrtl"
    /\ pc = "audio"
    /\ memop.rd /\ memop.wr
    /\ memop.ra = memop.wa
    /\ memop.rv # memop.ww
    /\ read_data_view = memop.rv
    /\ ReadWord(psram_data, memop.wa) = memop.ww
    /\ memop.rv # U32(0, 0)

=============================================================================
